---- MODULE Spec2Model ----
(***************************************************************************)
(* A model of the prompt catalogue front end (App.tsx): the placeholder    *)
(* extractor (extractFields), the composer (buildPrompt), the section      *)
(* splitter (parsePromptSections) and the modal's UI state (selected       *)
(* prompt, form values, copied indicator, clipboard promise, timers).      *)
(*                                                                         *)
(* A JavaScript string is modelled as the sequence of its UTF-16 code      *)
(* units, each written as a one-character TLA+ string; a code unit that a  *)
(* TLA+ string cannot hold is written by its code point, "U+3010" for the  *)
(* heading bracket.                                                        *)
(* Indices are 0-based as in the source: Substring(s, a, b) is             *)
(* s.substring(a, b).                                                      *)
(*                                                                         *)
(* The repository holds two versions of App.tsx. The model follows the     *)
(* later one (with hints and sections); the earlier one has the same       *)
(* extractFields without hints, the same buildPrompt and the same          *)
(* handlers, with a timer of 2000 ms instead of 3000 ms.                   *)
(***************************************************************************)
EXTENDS Integers, Sequences, FiniteSets, TLC

VARIABLES
    pc,             \* which function of the pipeline was applied last
    content,        \* the body handed to the pure functions
    fields,         \* currentFields: extractFields(content)
    formValues,     \* formValues: Record<string, string>
    result,         \* completedPrompt: buildPrompt(content, fields, formValues)
    sections,       \* completedSections: parsePromptSections(content)
    selectedPrompt, \* selectedPrompt: a key of prompts, or Null
    copied,         \* copied
    pendingWrites,  \* clipboard.writeText promises not yet settled
    pendingTimers,  \* setTimeout(() => setCopied(false)) callbacks not yet run
    clicks,         \* history: number of clicks on the copy button
    settled,        \* history: number of clipboard promises settled
    lastEvent,      \* history: the UI event that ran last
    prevEvent,      \* history: the UI event that ran before it
    valuesOwner     \* history: the prompts the current form values were typed for

vars == <<pc, content, fields, formValues, result, sections, selectedPrompt,
          copied, pendingWrites, pendingTimers, clicks, settled, lastEvent,
          prevEvent, valuesOwner>>

uiVars == <<selectedPrompt, copied, pendingWrites, pendingTimers, clicks,
            settled, lastEvent, prevEvent, valuesOwner>>

Null == "null"

(***************************************************************************)
(* Characters and literals of the source.                                  *)
(***************************************************************************)
LF == "\n"
Digits == {"0", "1", "2", "3", "4", "5", "6", "7", "8", "9"}
\* the range U+2460 .. U+2469 of the class [①-⑩\d]
CircledNumbers == {"U+2460", "U+2461", "U+2462", "U+2463", "U+2464",
                   "U+2465", "U+2466", "U+2467", "U+2468", "U+2469"}
\* what String.prototype.trim removes: the white space and line terminators
\* of ECMAScript (of the space separators, only U+0020, U+00A0 and U+3000)
WhiteSpace == {" ", LF, "\t", "\r", "\f", "U+000B", "U+00A0", "U+3000", "U+FEFF",
               "U+2028", "U+2029"}
\* the class [-\-・※【】]
LabelMarkers == {"-", "U+30FB", "U+203B", "U+3010", "U+3011"}
\* the class [：:]
Colons == {"U+FF1A", ":"}
Rei == "U+4F8B"
Joken == <<"U+6761", "U+4EF6">>
ShutsuryokuKeishiki == <<"U+51FA", "U+529B", "U+5F62", "U+5F0F">>
Nyuryoku == <<"U+5165", "U+529B">>
KokoniNyuryoku == <<"U+3053", "U+3053", "U+306B", "U+5165", "U+529B", "U+3057",
                    "U+3066", "U+304F", "U+3060", "U+3055", "U+3044">>
JiyuniNyuryoku == <<"U+81EA", "U+7531", "U+306B", "U+5165", "U+529B", "U+3057",
                    "U+3066", "U+304F", "U+3060", "U+3055", "U+3044">>
KaraErande == <<" ", "U+304B", "U+3089", "U+9078", "U+3093", "U+3067", "U+304F",
                "U+3060", "U+3055", "U+3044">>
WoNyuryoku == <<" ", "U+3092", "U+5165", "U+529B", "U+3057", "U+3066", "U+304F",
                "U+3060", "U+3055", "U+3044">>
AnatanoYakuwari == <<"U+3042", "U+306A", "U+305F", "U+306E", "U+5F79", "U+5272">>

(***************************************************************************)
(* String primitives of JavaScript used by the source.                     *)
(***************************************************************************)
Max(a, b) == IF a > b THEN a ELSE b
Min(a, b) == IF a < b THEN a ELSE b

\* s.substring(a, b)
Substring(s, a, b) == SubSeq(s, Min(Max(a, 0), Len(s)) + 1, Min(Max(b, 0), Len(s)))

\* s.startsWith(p)
StartsWith(s, p) == Len(p) <= Len(s) /\ SubSeq(s, 1, Len(p)) = p

\* s.includes(ch)
Includes(s, ch) == \E k \in 1..Len(s) : s[k] = ch

\* s.indexOf(p): the least 0-based index at which p occurs, -1 when none
IndexOf(s, p) ==
    LET hits == {i \in 0..(Len(s) - Len(p)) : SubSeq(s, i + 1, i + Len(p)) = p}
    IN  IF hits = {} THEN -1 ELSE CHOOSE i \in hits : \A j \in hits : i <= j

\* s.lastIndexOf(ch, from): the greatest index <= from holding ch, -1 when none
LastIndexOf(s, ch, from) ==
    LET hits == {i \in 0..Min(from, Len(s) - 1) : s[i + 1] = ch}
    IN  IF hits = {} THEN -1 ELSE CHOOSE i \in hits : \A j \in hits : i >= j

\* s.trim()
Trim(s) ==
    LET keep == {k \in 1..Len(s) : s[k] \notin WhiteSpace}
    IN  IF keep = {} THEN <<>>
        ELSE SubSeq(s, CHOOSE k \in keep : \A j \in keep : k <= j,
                       CHOOSE k \in keep : \A j \in keep : k >= j)

\* the decimal digits of a natural number, as `${n}` prints it
RECURSIVE Decimal(_)
Decimal(n) == IF n < 10 THEN <<ToString(n)>>
              ELSE Decimal(n \div 10) \o <<ToString(n % 10)>>

(***************************************************************************)
(* extractFields: the token grammar /[\[{]([^\]{}]+)[\]}]/g.               *)
(***************************************************************************)
OpenDelims == {"[", "{"}
CloseDelims == {"]", "}"}
\* the characters the class [^\]{}] refuses
InnerStops == {"]", "{", "}"}

NoMatch == [index |-> -1, end |-> -1]

\* the quantifier + of ([^\]{}]+): at least one inner character
InnerQuantifierStar(n) == n >= 0
InnerQuantifier(n) == n >= 1

\* where the greedy run of [^\]{}] that starts at index j stops
InnerRunEnd(s, j) ==
    LET stops == {k \in j..(Len(s) - 1) : s[k + 1] \in InnerStops}
    IN  IF stops = {} THEN Len(s) ELSE CHOOSE k \in stops : \A m \in stops : k <= m

\* the end index of the match that starts at index i, -1 when none starts
\* there. The run is maximal and holds no closing delimiter, so backing off
\* never finds one: the closing delimiter is the character after the run.
MatchEndAt(s, i) ==
    IF i >= Len(s) \/ s[i + 1] \notin OpenDelims THEN -1
    ELSE LET e == InnerRunEnd(s, i + 1)
         IN  IF InnerQuantifier(e - (i + 1)) /\ e < Len(s) /\ s[e + 1] \in CloseDelims
             THEN e + 1 ELSE -1

\* regex.exec(content) with regex.lastIndex = lastIndex: the leftmost match
\* at or after lastIndex
RegexExec(s, lastIndex) ==
    LET starts == {i \in lastIndex..(Len(s) - 1) : MatchEndAt(s, i) # -1}
    IN  IF starts = {} THEN NoMatch
        ELSE LET i == CHOOSE k \in starts : \A m \in starts : k <= m
             IN  [index |-> i, end |-> MatchEndAt(s, i)]

\* the two `continue` tests on the inner text
IsExcluded(inner) ==
    \/ inner # <<>> /\ inner[1] \in CircledNumbers \cup Digits
    \/ inner = Joken
    \/ inner = ShutsuryokuKeishiki

\* `field_${id}`
FieldId(id) == "field_" \o ToString(id)

\* .replace(/^[-\-・※【】]/, "")
StripLeadingMarker(s) == IF s # <<>> /\ s[1] \in LabelMarkers THEN Tail(s) ELSE s
\* .replace(/[：:]$/, "")
StripTrailingColon(s) ==
    IF s # <<>> /\ s[Len(s)] \in Colons THEN SubSeq(s, 1, Len(s) - 1) ELSE s

\* the label: the text before the token on its line, or `入力 ${id + 1}`
Label(s, index, id) ==
    LET lineStart == LastIndexOf(s, LF, index) + 1
        beforeBracket ==
            Trim(StripTrailingColon(StripLeadingMarker(Trim(Substring(s, lineStart, index)))))
    IN  IF beforeBracket # <<>> THEN beforeBracket
        ELSE Nyuryoku \o <<" ">> \o Decimal(id + 1)

IsExample(inner) ==
    StartsWith(inner, <<Rei, "U+FF1A">>) \/ StartsWith(inner, <<Rei, ":">>)

\* the four placeholder branches
Placeholder(inner) ==
    IF IsExample(inner) THEN SubSeq(inner, 3, Len(inner))
    ELSE IF inner = Nyuryoku THEN KokoniNyuryoku
    ELSE IF Includes(inner, "/") THEN inner
    ELSE inner

\* the branch taken, 1..4, in the order of the if/else chain
PlaceholderRule(inner) ==
    IF IsExample(inner) THEN 1
    ELSE IF inner = Nyuryoku THEN 2
    ELSE IF Includes(inner, "/") THEN 3
    ELSE 4

Hint(inner) ==
    IF IsExample(inner) THEN <<Rei, "U+FF1A">> \o SubSeq(inner, 3, Len(inner))
    ELSE IF inner = Nyuryoku THEN JiyuniNyuryoku
    ELSE IF Includes(inner, "/") THEN inner \o KaraErande
    ELSE inner \o WoNyuryoku

\* id++ after a push
NextIdSkipping(id, pushed) == id + 1
NextId(id, pushed) == IF pushed THEN id + 1 ELSE id

\* the while loop, from regex.lastIndex = lastIndex with `id` fields pushed
RECURSIVE ExtractLoop(_, _, _, _)
ExtractLoop(s, lastIndex, id, acc) ==
    LET match == RegexExec(s, lastIndex)
    IN  IF match = NoMatch THEN acc
        ELSE LET original == Substring(s, match.index, match.end)
                 inner == Substring(s, match.index + 1, match.end - 1)
             IN  IF IsExcluded(inner)
                 THEN ExtractLoop(s, match.end, NextId(id, FALSE), acc)
                 ELSE ExtractLoop(s, match.end, NextId(id, TRUE),
                          Append(acc, [id |-> FieldId(id),
                                       label |-> Label(s, match.index, id),
                                       placeholder |-> Placeholder(inner),
                                       hint |-> Hint(inner),
                                       original |-> original]))

extractFields(s) == ExtractLoop(s, 0, 0, <<>>)

(***************************************************************************)
(* buildPrompt: String.prototype.replace with a string pattern.            *)
(***************************************************************************)
Backtick == "U+0060"
Apostrophe == "U+0027"

\* GetSubstitution for a pattern without capture groups: in the replacement
\* text $$ is a dollar sign, $& the matched text, $` the text before the
\* match and $' the text after it; any other character, a dollar sign
\* followed by a digit or a last dollar sign included, is copied as it is.
RECURSIVE GetSubstitution(_, _, _, _, _)
GetSubstitution(matched, str, position, replacement, k) ==
    IF k > Len(replacement) THEN <<>>
    ELSE IF replacement[k] = "$" /\ k < Len(replacement)
              /\ replacement[k + 1] \in {"$", "&", Backtick, Apostrophe}
         THEN (CASE replacement[k + 1] = "$" -> <<"$">>
                 [] replacement[k + 1] = "&" -> matched
                 [] replacement[k + 1] = Backtick -> Substring(str, 0, position)
                 [] replacement[k + 1] = Apostrophe ->
                        Substring(str, position + Len(matched), Len(str)))
              \o GetSubstitution(matched, str, position, replacement, k + 2)
         ELSE <<replacement[k]>>
              \o GetSubstitution(matched, str, position, replacement, k + 1)

\* str.replace(searchValue, replaceValue), both strings: the first occurrence
\* of searchValue only, str itself when there is none
StringReplace(str, searchValue, replaceValue) ==
    LET position == IndexOf(str, searchValue)
    IN  IF position = -1 THEN str
        ELSE Substring(str, 0, position)
             \o GetSubstitution(searchValue, str, position, replaceValue, 1)
             \o Substring(str, position + Len(searchValue), Len(str))

\* values[field.id] || field.original
FieldValue(values, field) ==
    IF field.id \in DOMAIN values /\ values[field.id] # <<>>
    THEN values[field.id] ELSE field.original

\* the for loop, at its k-th field
RECURSIVE BuildLoop(_, _, _, _)
BuildLoop(res, flds, values, k) ==
    IF k > Len(flds) THEN res
    ELSE BuildLoop(StringReplace(res, flds[k].original, FieldValue(values, flds[k])),
                   flds, values, k + 1)

buildPrompt(body, flds, values) == BuildLoop(body, flds, values, 1)

(***************************************************************************)
(* parsePromptSections: content.split(/(?=【[^】]+】)/), then one section   *)
(* per part.                                                               *)
(***************************************************************************)
HeadOpen == "U+3010"
HeadClose == "U+3011"
IconRobot == "U+1F916"
IconClipboard == "U+1F4CB"
IconOutbox == "U+1F4E4"
IconPage == "U+1F4C4"

\* the end index of a match of 【[^】]+】 that starts at index q, -1 when none
HeadingEndAt(s, q) ==
    IF q >= Len(s) \/ s[q + 1] # HeadOpen THEN -1
    ELSE LET closes == {k \in (q + 1)..(Len(s) - 1) : s[k + 1] = HeadClose}
         IN  IF closes = {} THEN -1
             ELSE LET e == CHOOSE k \in closes : \A m \in closes : k <= m
                  IN  IF e - (q + 1) >= 1 THEN e + 1 ELSE -1

\* RegExp.prototype[Symbol.split] for the zero-width lookahead: with p the
\* start of the current part and q the index tried, an empty match at q = p
\* splits nothing and q advances; an empty match at q > p ends the part at q.
RECURSIVE SplitLoop(_, _, _, _)
SplitLoop(s, p, q, acc) ==
    IF q >= Len(s) THEN Append(acc, Substring(s, p, Len(s)))
    ELSE IF HeadingEndAt(s, q) = -1 \/ q = p THEN SplitLoop(s, p, q + 1, acc)
    ELSE SplitLoop(s, q, q, Append(acc, Substring(s, p, q)))

\* content.split(/(?=【[^】]+】)/): the empty string gives [""]
SplitAtHeadings(s) == IF Len(s) = 0 THEN <<(<<>>)>> ELSE SplitLoop(s, 0, 0, <<>>)

\* sectionIconMap[title] || "📄". The map is an object literal, so a title
\* naming a property of Object.prototype reads that property, not an icon.
ObjectPrototypeKeys ==
    {<<"c", "o", "n", "s", "t", "r", "u", "c", "t", "o", "r">>,
     <<"t", "o", "S", "t", "r", "i", "n", "g">>,
     <<"v", "a", "l", "u", "e", "O", "f">>}
sectionIcon(title) ==
    IF title = AnatanoYakuwari THEN IconRobot
    ELSE IF title = Joken THEN IconClipboard
    ELSE IF title = ShutsuryokuKeishiki THEN IconOutbox
    ELSE IF title \in ObjectPrototypeKeys THEN "Object.prototype"
    ELSE IconPage

\* part.match(/^【([^】]+)】\n?([\s\S]*)/): group 1 and the trimmed group 2
MarkerTitle(part) == Substring(part, 1, HeadingEndAt(part, 0) - 1)
MarkerBody(part) ==
    LET e == HeadingEndAt(part, 0)
        from == IF e < Len(part) /\ part[e + 1] = LF THEN e + 1 ELSE e
    IN  Trim(Substring(part, from, Len(part)))

\* if (body) for a part with a marker, else if (part.trim()) for one without
KeepsPartAlways(part) == TRUE
KeepsPart(part) ==
    IF HeadingEndAt(part, 0) # -1 THEN MarkerBody(part) # <<>>
    ELSE Trim(part) # <<>>

\* the section pushed for a part that is kept
SectionOf(part) ==
    IF HeadingEndAt(part, 0) # -1
    THEN [title |-> MarkerTitle(part), content |-> MarkerBody(part),
          icon |-> sectionIcon(MarkerTitle(part))]
    ELSE [title |-> AnatanoYakuwari, content |-> Trim(part), icon |-> IconRobot]

\* the for loop over the parts, at its k-th part
RECURSIVE SectionLoop(_, _, _)
SectionLoop(parts, k, acc) ==
    IF k > Len(parts) THEN acc
    ELSE SectionLoop(parts, k + 1,
             IF KeepsPart(parts[k]) THEN Append(acc, SectionOf(parts[k])) ELSE acc)

parsePromptSections(s) == SectionLoop(SplitAtHeadings(s), 1, <<>>)

(***************************************************************************)
(* The derived values of App: the useMemo hooks.                           *)
(***************************************************************************)
\* a sample of ./data/prompts: the catalogue itself is data outside the model
prompts ==
    [p1 |-> <<"a", ":", " ", "[", "x", "]", LF, "{", "y", "}">>,
     p2 |-> <<HeadOpen, "r", HeadClose, LF, "[", "x", "]">>]

EmptyValues == [id \in {} |-> <<>>]

promptContent(sel) == IF sel = Null THEN <<>> ELSE prompts[sel]
\* if (!selectedPrompt) return []; return extractFields(selectedPrompt.content)
currentFields(sel) == IF sel = Null THEN <<>> ELSE extractFields(prompts[sel])
\* if (!selectedPrompt) return ""; return buildPrompt(...)
completedPrompt(sel, values) ==
    IF sel = Null THEN <<>> ELSE buildPrompt(prompts[sel], currentFields(sel), values)
\* if (!completedPrompt) return []; return parsePromptSections(completedPrompt)
completedSections(prompt) == IF prompt = <<>> THEN <<>> ELSE parsePromptSections(prompt)

\* { ...prev, [field.id]: e.target.value }
Put(values, id, v) ==
    [k \in (DOMAIN values) \cup {id} |-> IF k = id THEN v ELSE values[k]]

(***************************************************************************)
(* Inputs.                                                                 *)
(***************************************************************************)
MaxBodyLen == 5
MaxPieces == 3
MaxBuildPieces == 3
MaxSectionLen == 5
MaxSectionPieces == 4
MaxClicks == 2

RECURSIVE Concat(_)
Concat(ss) == IF ss = <<>> THEN <<>> ELSE Head(ss) \o Concat(Tail(ss))

StringsUpTo(alphabet, n) == UNION {[1..k -> alphabet] : k \in 0..n}
PieceBodies(pieces, n) == {Concat(ps) : ps \in StringsUpTo(pieces, n)}

\* bodies for extractFields: every string over the delimiters, a letter and a
\* digit, and every run of a few tokens and texts
ExtractAlphabet == {"[", "]", "{", "}", "a", "1"}
ExtractPieces ==
    {<<"[", "a", "]">>, <<"{", "b", "}">>, <<"[", "1", " ", "a", "]">>,
     <<"[", "U+2460", "]">>, <<"[", "U+2469", "a", "]">>,
     <<"[">> \o Joken \o <<"]">>, <<"{">> \o ShutsuryokuKeishiki \o <<"}">>,
     <<"[">> \o Joken \o <<"a", "]">>, <<"[", "]">>, <<"{", "}">>,
     <<"[", "a", "}">>, <<"[", Rei, "U+FF1A", "a", "]">>, <<"[", Rei, ":", "]">>,
     <<"[">> \o Nyuryoku \o <<"]">>, <<"{", "a", "/", "b", "}">>,
     <<"-", " ", "q", ":", " ">>, <<LF>>, <<"x">>}
ExclusionScenario ==
    <<"[">> \o Joken \o <<"]", " ", "[", "1", " ", "d", "o", "n", "e", "]", " ", "{">>
    \o ShutsuryokuKeishiki \o <<"}">>
ExtractBodies ==
    StringsUpTo(ExtractAlphabet, MaxBodyLen)
    \cup PieceBodies(ExtractPieces, MaxPieces)
    \cup {ExclusionScenario}

\* bodies and typed values for buildPrompt
BuildPieces ==
    {<<"[", "a", "]">>, <<"[", "b", "]">>, <<"[", "$", "$", "]">>,
     <<"[", "$", "&", "]">>, <<"[", "1", "]">>, <<"x">>}
BuildBodies == PieceBodies(BuildPieces, MaxBuildPieces)
BuildValues ==
    {<<>>, <<"V">>, <<"[", "b", "]">>, <<"$", "$">>, <<"$", "&">>, <<"$", "1">>}

\* bodies for parsePromptSections
SectionAlphabet == {HeadOpen, HeadClose, "a", " ", LF}
RoleScenario ==
    <<HeadOpen, "R", "o", "l", "e", HeadClose, LF, "Y", "o", "u", " ", "a", "r", "e",
      " ", "a", "n", " ", "a", "s", "s", "i", "s", "t", "a", "n", "t", ".", LF,
      HeadOpen, "C", "o", "n", "d", "i", "t", "i", "o", "n", "s", HeadClose, LF,
      "B", "e", " ", "c", "o", "n", "c", "i", "s", "e", ".">>
LeadingTextScenario ==
    <<"J", "u", "s", "t", " ", "s", "o", "m", "e", " ", "t", "e", "x", "t", LF,
      HeadOpen, "C", "o", "n", "d", "i", "t", "i", "o", "n", "s", HeadClose, LF,
      "B", "e", " ", "c", "o", "n", "c", "i", "s", "e", ".">>
SectionPieces ==
    {<<HeadOpen, "a", HeadClose>>, <<HeadOpen, "b", HeadClose, LF>>, <<HeadOpen>>,
     <<HeadClose>>, <<"a">>, <<" ">>, <<LF>>} \cup {<<HeadOpen>> \o Joken \o <<HeadClose>>}
SectionBodies ==
    StringsUpTo(SectionAlphabet, MaxSectionLen)
    \cup PieceBodies(SectionPieces, MaxSectionPieces)
    \cup {RoleScenario, LeadingTextScenario}

\* what a user types into a field of the modal
TypedValues == {<<>>, <<"V">>}

(***************************************************************************)
(* The pure functions, applied to an input.                                *)
(***************************************************************************)
UiIdle ==
    /\ selectedPrompt = Null
    /\ copied = FALSE
    /\ pendingWrites = 0
    /\ pendingTimers = 0
    /\ clicks = 0
    /\ settled = 0
    /\ lastEvent = "init"
    /\ prevEvent = "init"
    /\ valuesOwner = EmptyValues

InitExtract ==
    /\ pc = "start"
    /\ content \in ExtractBodies
    /\ fields = <<>>
    /\ formValues = EmptyValues
    /\ result = <<>>
    /\ sections = <<>>
    /\ UiIdle

InitBuild ==
    /\ pc = "start"
    /\ content \in BuildBodies
    /\ fields = <<>>
    /\ formValues = EmptyValues
    /\ result = <<>>
    /\ sections = <<>>
    /\ UiIdle

InitSections ==
    /\ pc = "built"
    /\ content \in SectionBodies
    /\ fields = <<>>
    /\ formValues = EmptyValues
    /\ result = content
    /\ sections = <<>>
    /\ UiIdle

\* currentFields = extractFields(content)
Extract ==
    /\ pc = "start"
    /\ fields' = extractFields(content)
    /\ pc' = "extracted"
    /\ UNCHANGED <<content, formValues, result, sections>>
    /\ UNCHANGED uiVars

\* the user types v into the k-th field before the text is composed
Fill ==
    /\ pc = "extracted"
    /\ \E k \in 1..Len(fields), v \in BuildValues :
          formValues' = Put(formValues, fields[k].id, v)
    /\ UNCHANGED <<pc, content, fields, result, sections>>
    /\ UNCHANGED uiVars

\* completedPrompt = buildPrompt(content, currentFields, formValues)
Build ==
    /\ pc = "extracted"
    /\ result' = buildPrompt(content, fields, formValues)
    /\ pc' = "built"
    /\ UNCHANGED <<content, fields, formValues, sections>>
    /\ UNCHANGED uiVars

\* completedSections = parsePromptSections(completedPrompt)
Parse ==
    /\ pc = "built"
    /\ sections' = completedSections(result)
    /\ pc' = "parsed"
    /\ UNCHANGED <<content, fields, formValues, result>>
    /\ UNCHANGED uiVars

NextExtract == Extract
NextBuild == Extract \/ Fill \/ Build
NextSections == Parse

SpecExtract == InitExtract /\ [][NextExtract]_vars
SpecBuild == InitBuild /\ [][NextBuild]_vars
SpecSections == InitSections /\ [][NextSections]_vars

(***************************************************************************)
(* The modal: the event handlers of App, each with the render it causes.   *)
(* The prompt cards are buttons that stay in the page under the modal, so  *)
(* a prompt can be selected while another is open; the close button, the   *)
(* fields and the copy button exist only while a prompt is selected.       *)
(***************************************************************************)
InitUI ==
    /\ pc = "ui"
    /\ content = <<>>
    /\ fields = <<>>
    /\ formValues = EmptyValues
    /\ result = <<>>
    /\ sections = <<>>
    /\ UiIdle

\* the render after a state change: the useMemo values follow the state
Render(sel, values) ==
    /\ pc' = "ui"
    /\ content' = promptContent(sel)
    /\ fields' = currentFields(sel)
    /\ result' = completedPrompt(sel, values)
    /\ sections' = completedSections(completedPrompt(sel, values))

\* history: the event that runs
Event(e) == lastEvent' = e /\ prevEvent' = lastEvent

\* history: a value still in the form keeps the prompt it was typed for
KeepOwners == valuesOwner' = [id \in DOMAIN formValues' |-> valuesOwner[id]]

handleSelectPromptKeepingValues(p) ==
    /\ selectedPrompt' = p
    /\ formValues' = formValues
    /\ copied' = FALSE
    /\ Event("select")
    /\ KeepOwners
    /\ Render(p, formValues)
    /\ UNCHANGED <<pendingWrites, pendingTimers, clicks, settled>>

handleSelectPrompt(p) ==
    /\ selectedPrompt' = p
    /\ formValues' = EmptyValues
    /\ copied' = FALSE
    /\ Event("select")
    /\ KeepOwners
    /\ Render(p, EmptyValues)
    /\ UNCHANGED <<pendingWrites, pendingTimers, clicks, settled>>

handleCloseModal ==
    /\ selectedPrompt # Null
    /\ selectedPrompt' = Null
    /\ formValues' = EmptyValues
    /\ copied' = FALSE
    /\ Event("close")
    /\ KeepOwners
    /\ Render(Null, EmptyValues)
    /\ UNCHANGED <<pendingWrites, pendingTimers, clicks, settled>>

\* onChange of the k-th field's textarea: setFormValues(prev => ...)
onChange(k, v) ==
    /\ selectedPrompt # Null
    /\ k \in 1..Len(fields)
    /\ formValues' = Put(formValues, fields[k].id, v)
    /\ valuesOwner' = Put(valuesOwner, fields[k].id, selectedPrompt)
    /\ Event("change")
    /\ Render(selectedPrompt, Put(formValues, fields[k].id, v))
    /\ UNCHANGED <<selectedPrompt, copied, pendingWrites, pendingTimers, clicks, settled>>

\* handleCopy up to its await: navigator.clipboard.writeText(completedPrompt)
handleCopy ==
    /\ selectedPrompt # Null
    /\ clicks < MaxClicks
    /\ clicks' = clicks + 1
    /\ pendingWrites' = pendingWrites + 1
    /\ Event("copy")
    /\ UNCHANGED <<pc, content, fields, formValues, result, sections>>
    /\ UNCHANGED <<selectedPrompt, copied, pendingTimers, settled, valuesOwner>>

\* the flash both branches of handleCopy end with: setCopied(true) and
\* setTimeout(() => setCopied(false), 3000)
Flash(event) ==
    /\ pendingWrites > 0
    /\ pendingWrites' = pendingWrites - 1
    /\ settled' = settled + 1
    /\ copied' = TRUE
    /\ pendingTimers' = pendingTimers + 1
    /\ Event(event)
    /\ UNCHANGED <<pc, content, fields, formValues, result, sections>>
    /\ UNCHANGED <<selectedPrompt, clicks, valuesOwner>>

\* the promise resolves: the rest of the try block
writeResolved == Flash("resolve")

writeRejectedSilent ==
    /\ pendingWrites > 0
    /\ pendingWrites' = pendingWrites - 1
    /\ settled' = settled + 1
    /\ Event("reject")
    /\ UNCHANGED <<pc, content, fields, formValues, result, sections>>
    /\ UNCHANGED <<selectedPrompt, copied, pendingTimers, clicks, valuesOwner>>

\* the promise rejects: the catch block, the textarea fallback and the flash
writeRejected == Flash("reject")

\* a timer runs: () => setCopied(false)
timerFired ==
    /\ pendingTimers > 0
    /\ pendingTimers' = pendingTimers - 1
    /\ copied' = FALSE
    /\ Event("timer")
    /\ UNCHANGED <<pc, content, fields, formValues, result, sections>>
    /\ UNCHANGED <<selectedPrompt, pendingWrites, clicks, settled, valuesOwner>>

NextUI ==
    \/ \E p \in DOMAIN prompts : handleSelectPrompt(p)
    \/ handleCloseModal
    \/ \E k \in 1..Len(fields), v \in TypedValues : onChange(k, v)
    \/ handleCopy
    \/ writeResolved
    \/ writeRejected
    \/ timerFired

SpecUI == InitUI /\ [][NextUI]_vars

\* a clipboard promise settles, and a timer that was set runs
SpecUIFair ==
    /\ SpecUI
    /\ WF_vars(writeResolved \/ writeRejected)
    /\ WF_vars(timerFired)

(***************************************************************************)
(* Notions the claims are stated in.                                       *)
(***************************************************************************)
\* the value typed for the field with this id: "" when none was
TypedValue(values, id) == IF id \in DOMAIN values THEN values[id] ELSE <<>>

\* the indices at which p occurs in s
Occurrences(s, p) == {i \in 0..(Len(s) - Len(p)) : SubSeq(s, i + 1, i + Len(p)) = p}
Contains(s, p) == Occurrences(s, p) # {}

\* s with the text from index a to index b replaced by the literal text v
Splice(s, a, b, v) == Substring(s, 0, a) \o v \o Substring(s, b, Len(s))

NoDollar(s) == ~Includes(s, "$")

\* every match of the token grammar in the body, in order of appearance
RECURSIVE AllMatches(_, _)
AllMatches(s, from) ==
    LET m == RegexExec(s, from)
    IN  IF m = NoMatch THEN <<>> ELSE <<m>> \o AllMatches(s, m.end)

\* C1: composing with no value, or with empty values only, returns the body
\* exactly, whatever characters its tokens hold.
C1_Idempotence ==
    (pc = "built" /\ \A id \in DOMAIN formValues : formValues[id] = <<>>)
        => result = content

\* C2: a body with one field, whose token X occurs once, composed with a
\* non-empty value V, is the body with X replaced by the literal text V.
C2_RoundTrip ==
    (/\ pc = "built"
     /\ Len(fields) = 1
     /\ Cardinality(Occurrences(content, fields[1].original)) = 1
     /\ TypedValue(formValues, "field_0") # <<>>)
        => LET X == fields[1].original
               at == IndexOf(content, X)
           IN  result = Splice(content, at, at + Len(X), formValues["field_0"])

\* the matches of the body that become fields: those not excluded
RECURSIVE FieldMatches(_, _)
FieldMatches(s, from) ==
    LET m == RegexExec(s, from)
    IN  IF m = NoMatch THEN <<>>
        ELSE IF IsExcluded(Substring(s, m.index + 1, m.end - 1))
             THEN FieldMatches(s, m.end)
             ELSE <<m>> \o FieldMatches(s, m.end)

\* the body with the k-th field's token, at the place it was extracted from,
\* replaced by the literal value typed for it, or left when none was typed
RECURSIVE PositionalFrom(_, _, _, _, _)
PositionalFrom(s, spans, values, k, from) ==
    IF k > Len(spans) THEN Substring(s, from, Len(s))
    ELSE Substring(s, from, spans[k].index)
         \o (IF TypedValue(values, FieldId(k - 1)) # <<>>
             THEN values[FieldId(k - 1)]
             ELSE Substring(s, spans[k].index, spans[k].end))
         \o PositionalFrom(s, spans, values, k + 1, spans[k].end)

PositionalCompose(s, values) == PositionalFrom(s, FieldMatches(s, 0), values, 1, 0)

DistinctOriginals(flds) ==
    \A i, j \in 1..Len(flds) : i # j => flds[i].original # flds[j].original

\* C7: when the fields' tokens are pairwise distinct, each value stands where
\* its own token stood and the other text is unchanged. Stated for bodies and
\* values without a dollar sign, where no replacement pattern ($$, $&) of
\* C1 and C2 takes part.
C7_PositionalSubstitution ==
    (/\ pc = "built"
     /\ DistinctOriginals(fields)
     /\ NoDollar(content)
     /\ \A id \in DOMAIN formValues : NoDollar(formValues[id]))
        => result = PositionalCompose(content, formValues)

\* C8: when field_i and field_j, i < j, have the same token T, a value V
\* typed for field_j alone lands on the first occurrence of T in the body
\* and the rest of the body, the second occurrence included, is unchanged.
C8_IdenticalTokens ==
    pc = "built" =>
        \A i, j \in 1..Len(fields) :
            (/\ i < j
             /\ fields[i].original = fields[j].original
             /\ TypedValue(formValues, FieldId(j - 1)) # <<>>
             /\ \A k \in 1..Len(fields) :
                    k # j => TypedValue(formValues, FieldId(k - 1)) = <<>>)
                => LET T == fields[j].original
                       at == IndexOf(content, T)
                   IN  result = Splice(content, at, at + Len(T),
                                       formValues[FieldId(j - 1)])

\* C8 on bodies and values without a dollar sign
C8_IdenticalTokensNoDollar ==
    (/\ NoDollar(content)
     /\ \A id \in DOMAIN formValues : NoDollar(formValues[id]))
        => C8_IdenticalTokens

\* a token is well formed: matching delimiters around an inner text that
\* holds no bracket and no brace
WellFormed(tok) ==
    /\ Len(tok) >= 2
    /\ <<tok[1], tok[Len(tok)]>> \in {<<"[", "]">>, <<"{", "}">>}
    /\ \A k \in 2..(Len(tok) - 1) : tok[k] \notin {"[", "]", "{", "}"}

\* C9: every field's original is a well-formed token.
C9_OnlyWellFormedTokens ==
    pc = "extracted" => \A k \in 1..Len(fields) : WellFormed(fields[k].original)

EmptyTokens == {<<"[", "]">>, <<"{", "}">>}

\* C10 as stated: a body that contains "[]" (or "{}") yields a field with that
\* original, whose placeholder is the empty string by the fourth branch.
C10_EmptyTokenIsField ==
    pc = "extracted" =>
        \A tok \in EmptyTokens :
            Contains(content, tok) =>
                \E k \in 1..Len(fields) :
                    /\ fields[k].original = tok
                    /\ fields[k].placeholder = <<>>
                    /\ PlaceholderRule(<<>>) = 4

\* C10 as amended: a token with empty inner text is no field. No field's
\* original is "[]" or "{}": every original holds at least one inner
\* character between its delimiters.
C10_EmptyTokenIsNoField ==
    pc = "extracted" =>
        \A k \in 1..Len(fields) :
            /\ fields[k].original \notin EmptyTokens
            /\ Len(fields[k].original) >= 3

\* a body that holds "[]" and a token after it, extracted
C10_Witness ==
    /\ pc = "extracted"
    /\ Contains(content, <<"[", "]">>)
    /\ Contains(content, <<"{", "}">>)
    /\ Len(fields) >= 1

\* the text of a match and its inner text
MatchText(s, m) == Substring(s, m.index, m.end)
MatchInner(s, m) == Substring(s, m.index + 1, m.end - 1)

\* the exclusion rule as the claim words it
C3_Excluded(inner) ==
    \/ \E d \in CircledNumbers \cup Digits : StartsWith(inner, <<d>>)
    \/ inner \in {Joken, ShutsuryokuKeishiki}

\* the tokens of the body that are not excluded, in order of appearance
RECURSIVE C3_Kept(_, _, _)
C3_Kept(s, ms, k) ==
    IF k > Len(ms) THEN <<>>
    ELSE (IF C3_Excluded(MatchInner(s, ms[k])) THEN <<>> ELSE <<MatchText(s, ms[k])>>)
         \o C3_Kept(s, ms, k + 1)

C4_MarkerAt(s, q) ==
    /\ q < Len(s)
    /\ s[q + 1] = HeadOpen
    /\ \E e \in (q + 2)..(Len(s) - 1) :
          /\ s[e + 1] = HeadClose
          /\ \A k \in (q + 1)..(e - 1) : s[k + 1] # HeadClose

\* the chunks of the body: it is cut before every marker that is not at its
\* very start. A chunk is given by the indices it starts and ends at.
C4_Cuts(s) == {0} \cup {q \in 1..(Len(s) - 1) : C4_MarkerAt(s, q)}
C4_ChunkEnd(s, c) ==
    LET later == {q \in C4_Cuts(s) : q > c}
    IN  IF later = {} THEN Len(s) ELSE CHOOSE q \in later : \A r \in later : q <= r
C4_Chunk(s, c) == Substring(s, c, C4_ChunkEnd(s, c))

\* the title and the content a chunk stands for
C4_Title(chunk) ==
    IF C4_MarkerAt(chunk, 0)
    THEN Substring(chunk, 1, IndexOf(chunk, <<HeadClose>>))
    ELSE AnatanoYakuwari
C4_Content(chunk) ==
    IF C4_MarkerAt(chunk, 0)
    THEN Trim(Substring(chunk, IndexOf(chunk, <<HeadClose>>) + 1, Len(chunk)))
    ELSE Trim(chunk)

\* the chunks with non-empty content, in body order, from index c on
RECURSIVE C4_Expected(_, _)
C4_Expected(s, c) ==
    IF c >= Len(s) THEN <<>>
    ELSE (IF C4_Content(C4_Chunk(s, c)) = <<>> THEN <<>>
          ELSE << [title |-> C4_Title(C4_Chunk(s, c)),
                   content |-> C4_Content(C4_Chunk(s, c))] >>)
         \o C4_Expected(s, C4_ChunkEnd(s, c))

\* C4: the sections are, in body order and with repetitions kept, the chunks
\* whose trimmed content is not empty, each with its marker's title or, for a
\* chunk without a marker, the default title and the robot icon; so no
\* section has an empty title or an empty content, and the role scenario
\* gives the two sections Role and Conditions.
C4_SectionsAreChunks ==
    pc = "parsed" =>
        LET want == C4_Expected(result, 0)
        IN  /\ Len(sections) = Len(want)
            /\ \A k \in 1..Len(sections) :
                   /\ sections[k].title = want[k].title
                   /\ sections[k].content = want[k].content
                   /\ sections[k].title # <<>>
                   /\ sections[k].content # <<>>
            /\ (~C4_MarkerAt(result, 0) /\ Trim(C4_Chunk(result, 0)) # <<>>) =>
                   /\ sections[1].title = AnatanoYakuwari
                   /\ sections[1].icon = IconRobot
                   /\ sections[1].content = Trim(C4_Chunk(result, 0))
            /\ result = RoleScenario =>
                   /\ Len(sections) = 2
                   /\ sections[1].title = <<"R", "o", "l", "e">>
                   /\ sections[2].title =
                          <<"C", "o", "n", "d", "i", "t", "i", "o", "n", "s">>

\* a leading text, a heading whose content is empty and a heading with
\* content, parsed: the empty one is dropped
C4_Witness ==
    /\ pc = "parsed"
    /\ ~C4_MarkerAt(result, 0)
    /\ Trim(C4_Chunk(result, 0)) # <<>>
    /\ Cardinality(C4_Cuts(result)) = 3
    /\ Len(sections) = 2
    /\ sections[1].title = AnatanoYakuwari
    /\ sections[2].title = <<"a">>

\* C5: the form values are empty right after a prompt is selected or the
\* modal is closed, and whenever no prompt is selected; so every value in
\* the form was typed for the prompt now selected.
C5_ValuesResetOnChange ==
    pc = "ui" =>
        /\ lastEvent \in {"select", "close"} => formValues = EmptyValues
        /\ selectedPrompt = Null => formValues = EmptyValues
        /\ \A id \in DOMAIN formValues : valuesOwner[id] = selectedPrompt

\* a value typed for one prompt, then another prompt selected
C5_Witness ==
    /\ pc = "ui"
    /\ lastEvent = "select"
    /\ prevEvent = "change"
    /\ selectedPrompt = "p2"
    /\ formValues = EmptyValues
    /\ result = prompts["p2"]

\* C6: every click on the copy button is followed by the indicator being
\* true, by success or by the fallback; the indicator, once true, is false
\* again later; and after the last click it ends false and stays false.
C6_FlashAndRevert ==
    /\ \A n \in 1..MaxClicks :
           (lastEvent = "copy" /\ clicks = n) ~> (settled >= n /\ copied)
    /\ copied ~> ~copied
    /\ <>[](~copied)

\* a write that was rejected, the indicator set by the fallback and then
\* reverted by its timer
C6_Witness ==
    /\ pc = "ui"
    /\ prevEvent = "reject"
    /\ lastEvent = "timer"
    /\ settled >= 1
    /\ pendingTimers = 0
    /\ ~copied

\* a marker begins a line: it is at the start of the body or right after a
\* line feed
C11_BeginsLine(s, q) == q = 0 \/ s[q] = LF

\* the cuts the claim allows: before the markers that begin a line
C11_Cuts(s) == {0} \cup {q \in 1..(Len(s) - 1) : C4_MarkerAt(s, q) /\ C11_BeginsLine(s, q)}
C11_ChunkEnd(s, c) ==
    LET later == {q \in C11_Cuts(s) : q > c}
    IN  IF later = {} THEN Len(s) ELSE CHOOSE q \in later : \A r \in later : q <= r

\* the sections of a body cut before the markers that begin a line only
RECURSIVE C11_Expected(_, _)
C11_Expected(s, c) ==
    IF c >= Len(s) THEN <<>>
    ELSE LET chunk == Substring(s, c, C11_ChunkEnd(s, c))
         IN  (IF C4_Content(chunk) = <<>> THEN <<>>
              ELSE << [title |-> C4_Title(chunk), content |-> C4_Content(chunk)] >>)
             \o C11_Expected(s, C11_ChunkEnd(s, c))

\* C11: sections begin only at a marker that begins a line. A marker in the
\* middle of a line starts no section and stays in the content of the
\* section that holds its line: the sections are those of the body cut
\* before the line-beginning markers only.
C11_BoundariesBeginLines ==
    pc = "parsed" =>
        LET want == C11_Expected(result, 0)
        IN  /\ Len(sections) = Len(want)
            /\ \A k \in 1..Len(sections) :
                   /\ sections[k].title = want[k].title
                   /\ sections[k].content = want[k].content

\* C12: the copied indicator is true only while a prompt is selected,
\* whatever the order of select, close, copy, promise settlement and timers.
C12_CopiedOnlyWhileSelected ==
    pc = "ui" => (copied => selectedPrompt # Null)

====
